---- MODULE Spec2Model ----
(***************************************************************************)
(* LangFork / ChatTree: the conversation tree (node store), the tree       *)
(* reducer that mutates it, the hooks that send and branch, and the        *)
(* context compiler that decides what a provider sees.                     *)
(***************************************************************************)
EXTENDS Integers, Sequences, FiniteSets, TLC

VARIABLES
  nodes,           \* state.nodes: the node collection, in store order
  activeNodeId,    \* state.activeNodeId
  selectedNodeId,  \* state.selectedNodeId
  pending,         \* provider requests that have not resolved yet
  fallback,        \* user nodes whose request sendToGemini has thrown on
  projectId,       \* the project the node collection belongs to
  nextId,          \* the next id generateUUID returns
  now,             \* the last value Date.now() returned
  context,         \* the last list compileContext returned
  call,            \* the last operation applied, its arguments and the state before it
  summary          \* the last object getContextSummary returned

vars == <<nodes, activeNodeId, selectedNodeId, pending, fallback, projectId, nextId, now, context, call, summary>>

(***************************************************************************)
(* Bounds of the model.                                                    *)
(***************************************************************************)
\* how many ids generateUUID hands out in one behaviour
MaxNodes == 3
\* ids the actions hand out at most
MaxIds == 4
\* the last value of Date.now() the model distinguishes
MaxClock == 2
\* size of the stores drawn for the pure-function specifications
MaxStore == 3
\* iterations of a parent walk the model follows
MaxWalk == 5

\* null / undefined id
NoId == 0

\* project switches the model follows
MaxProjects == 2

\* 'default-project' of initialState; a project made later gets the next number
DefaultProject == 0

(***************************************************************************)
(* Texts.  A message typed by the user, the trimmed form stored in the     *)
(* node, and what a provider can answer.                                   *)
(***************************************************************************)
MessageTexts == {" ok ", " "}

\* String.prototype.trim on the texts above
trim(s) ==
  CASE s = " ok " -> "ok"
    [] s = " "    -> ""
    [] OTHER      -> s

WelcomeText == "Welcome to LangFork! Start your conversation here."

\* what sendToGemini can return when it succeeds
ProviderTexts == {"Sure."}

\* sendToMockLLM: the stand-in answer, built from the last message
sendToMockLLM(messages) ==
  "This is a mock response to: \"" \o messages[Len(messages)].content
     \o "\". In a real implementation, this would be sent to an actual LLM API."

\* Math.ceil(aiResponse.length / 4)
tokenEstimate(text) == (Len(text) + 3) \div 4

GeminiModel == "gemini-2.0-flash-exp"

(***************************************************************************)
(* treeUtils                                                               *)
(***************************************************************************)
Roles == {"user", "assistant"}

\* createNode: the id and the timestamp are the two values it draws itself
\* a node created as its own parent
createNodeOwnParent(id, ts, parentId, role, content, metadata) ==
  [ id       |-> id,
    parentId |-> id,
    children |-> << >>,
    role     |-> role,
    content  |-> content,
    metadata |-> [ timestamp  |-> ts,
                   modelUsed  |-> metadata.modelUsed,
                   tokenCount |-> metadata.tokenCount,
                   isPinned   |-> metadata.isPinned ] ]

\* the parentId of the props dropped
createNodeDetached(id, ts, parentId, role, content, metadata) ==
  [ id       |-> id,
    parentId |-> NoId,
    children |-> << >>,
    role     |-> role,
    content  |-> content,
    metadata |-> [ timestamp  |-> ts,
                   modelUsed  |-> metadata.modelUsed,
                   tokenCount |-> metadata.tokenCount,
                   isPinned   |-> metadata.isPinned ] ]

createNode(id, ts, parentId, role, content, metadata) ==
  [ id       |-> id,
    parentId |-> parentId,
    children |-> << >>,
    role     |-> role,
    content  |-> content,
    metadata |-> [ timestamp  |-> ts,
                   modelUsed  |-> metadata.modelUsed,
                   tokenCount |-> metadata.tokenCount,
                   isPinned   |-> metadata.isPinned ] ]

\* the metadata argument the callers pass for a user node
UserMetadata == [isPinned |-> FALSE, modelUsed |-> "null", tokenCount |-> 0]

\* the metadata argument the callers pass for a reply
ReplyMetadata(aiResponse) ==
  [isPinned |-> FALSE, modelUsed |-> GeminiModel, tokenCount |-> tokenEstimate(aiResponse)]

InSeq(x, s) == \E i \in 1..Len(s) : s[i] = x

NodeIds(ns) == {ns[i].id : i \in 1..Len(ns)}

Resolves(ns, id) == \E i \in 1..Len(ns) : ns[i].id = id

\* index of the first node with this id (Array.prototype.find), 0 when none
findIndex(ns, id) ==
  IF Resolves(ns, id)
    THEN CHOOSE i \in 1..Len(ns) : ns[i].id = id /\ \A j \in 1..(i-1) : ns[j].id # id
    ELSE 0

\* findNodeById, used where the id resolves
findNodeById(ns, id) == ns[findIndex(ns, id)]

\* the push without the includes test
addChildToNodeAlways(parentNode, childId) ==
  [parentNode EXCEPT !.children = Append(@, childId)]

\* addChildToNode: append unless already there
addChildToNode(parentNode, childId) ==
  IF InSeq(childId, parentNode.children)
    THEN parentNode
    ELSE [parentNode EXCEPT !.children = Append(@, childId)]

RECURSIVE getDescendants(_, _)
RECURSIVE descendantsOfChildrenAfter(_, _)
\* a walk that lists a child after the child's own descendants
descendantsOfChildrenAfter(ns, childIds) ==
  IF childIds = << >> THEN << >>
  ELSE LET childId == Head(childIds) IN
       (IF Resolves(ns, childId)
          THEN getDescendants(ns, childId) \o <<findNodeById(ns, childId)>>
          ELSE << >>)
       \o descendantsOfChildrenAfter(ns, Tail(childIds))

RECURSIVE descendantsOfChildren(_, _)
\* the loop of getDescendants over node.children
descendantsOfChildren(ns, childIds) ==
  IF childIds = << >> THEN << >>
  ELSE LET childId == Head(childIds) IN
       (IF Resolves(ns, childId)
          THEN <<findNodeById(ns, childId)>> \o getDescendants(ns, childId)
          ELSE << >>)
       \o descendantsOfChildren(ns, Tail(childIds))

\* getDescendants: pre-order walk along the children lists
getDescendants(ns, nodeId) ==
  IF Resolves(ns, nodeId)
    THEN descendantsOfChildren(ns, findNodeById(ns, nodeId).children)
    ELSE << >>

RECURSIVE getPathToRoot(_, _)
\* getPathToRoot: the chain of parentId pointers, root first
getPathToRoot(ns, nodeId) ==
  IF ~Resolves(ns, nodeId) THEN << >>
  ELSE LET currentNode == findNodeById(ns, nodeId) IN
       (IF currentNode.parentId # NoId
          THEN getPathToRoot(ns, currentNode.parentId)
          ELSE << >>)
       \o <<currentNode>>

(***************************************************************************)
(* contextCompiler                                                         *)
(***************************************************************************)
RECURSIVE SelectPinned(_)
\* allNodes.filter(node => node.metadata.isPinned)
SelectPinned(ns) ==
  IF ns = << >> THEN << >>
  ELSE (IF Head(ns).metadata.isPinned THEN <<Head(ns)>> ELSE << >>)
       \o SelectPinned(Tail(ns))

RECURSIVE insertByTimestampDescending(_, _)
\* the comparator reversed: b.timestamp - a.timestamp
insertByTimestampDescending(sorted, n) ==
  IF sorted = << >> THEN <<n>>
  ELSE IF Head(sorted).metadata.timestamp >= n.metadata.timestamp
         THEN <<Head(sorted)>> \o insertByTimestampDescending(Tail(sorted), n)
         ELSE <<n>> \o sorted

RECURSIVE insertByTimestamp(_, _)
\* place n after every element whose timestamp is not larger
insertByTimestamp(sorted, n) ==
  IF sorted = << >> THEN <<n>>
  ELSE IF Head(sorted).metadata.timestamp <= n.metadata.timestamp
         THEN <<Head(sorted)>> \o insertByTimestamp(Tail(sorted), n)
         ELSE <<n>> \o sorted

RECURSIVE sortByTimestamp(_)
\* Array.prototype.sort((a, b) => a.timestamp - b.timestamp): stable, ascending
sortByTimestamp(ns) ==
  IF ns = << >> THEN << >>
  ELSE insertByTimestamp(sortByTimestamp(SubSeq(ns, 1, Len(ns) - 1)), ns[Len(ns)])

\* the running state of compileContext: contextMessages (as the nodes they
\* were made from) and addedIds
EmptyAcc == [msgs |-> << >>, added |-> {}]

\* push without looking at addedIds
pushNodeUnchecked(acc, n) ==
  [msgs |-> Append(acc.msgs, n), added |-> acc.added \cup {n.id}]

\* contextMessages.push unless the id was added
pushNode(acc, n) ==
  IF n.id \in acc.added THEN acc
  ELSE [msgs |-> Append(acc.msgs, n), added |-> acc.added \cup {n.id}]

\* contextMessages.unshift unless the id was added
unshiftNode(acc, n) ==
  IF n.id \in acc.added THEN acc
  ELSE [msgs |-> <<n>> \o acc.msgs, added |-> acc.added \cup {n.id}]

RECURSIVE pushAll(_, _)
pushAll(acc, ns) ==
  IF ns = << >> THEN acc ELSE pushAll(pushNode(acc, Head(ns)), Tail(ns))

RECURSIVE unshiftAll(_, _)
unshiftAll(acc, ns) ==
  IF ns = << >> THEN acc ELSE unshiftAll(unshiftNode(acc, Head(ns)), Tail(ns))

\* the branch test of compileContext: !activeNode || !activeNode.parentId
isInMainBranch(allNodes, id) ==
  ~Resolves(allNodes, id) \/ findNodeById(allNodes, id).parentId = NoId

\* the main-branch policy applied to every active node
compileBranchHierarchical(allNodes, id, afterPinned, ancestorPath) ==
  IF ancestorPath = << >>
    THEN afterPinned
    ELSE pushAll(unshiftAll(afterPinned, ancestorPath),
                 sortByTimestamp(getDescendants(allNodes, ancestorPath[1].id)))

\* the second half of compileContext, after the pinned nodes were pushed and
\* the ancestor path was computed
compileBranch(allNodes, id, afterPinned, ancestorPath) ==
  IF ~isInMainBranch(allNodes, id)
    THEN \* sub-branch: the ancestor path only
         unshiftAll(afterPinned, ancestorPath)
    ELSE \* main branch: the ancestor path, then the descendants of its root
         IF ancestorPath = << >>
           THEN afterPinned
           ELSE pushAll(unshiftAll(afterPinned, ancestorPath),
                        sortByTimestamp(getDescendants(allNodes, ancestorPath[1].id)))

\* the nodes compileContext turns into messages, in the order of the list
compiledNodes(allNodes, id) ==
  compileBranch(allNodes, id, pushAll(EmptyAcc, SelectPinned(allNodes)),
                getPathToRoot(allNodes, id)).msgs

Message(role, content) == [role |-> role, content |-> content]

\* the {role, content} entries made from the emitted nodes
toMessages(emitted) ==
  [i \in 1..Len(emitted) |-> Message(emitted[i].role, emitted[i].content)]

\* the new prompt skipped when an entry with the same text is already in the list
compileContextUniquePrompt(allNodes, id, newPromptText) ==
  LET msgs == toMessages(compiledNodes(allNodes, id))
  IN  IF \E i \in 1..Len(msgs) : msgs[i].content = newPromptText
        THEN msgs
        ELSE msgs \o <<Message("user", newPromptText)>>

\* compileContext
compileContext(allNodes, id, newPromptText) ==
  toMessages(compiledNodes(allNodes, id)) \o <<Message("user", newPromptText)>>

RECURSIVE sumTokenCount(_)
\* contextNodes.reduce((sum, node) => sum + (node.metadata.tokenCount || 0), 0)
sumTokenCount(ns) ==
  IF ns = << >> THEN 0 ELSE Head(ns).metadata.tokenCount + sumTokenCount(Tail(ns))

\* getContextSummary (the preview of the ancestor path left out)
getContextSummary(allNodes, id) ==
  LET pinnedNodes    == SelectPinned(allNodes)
      ancestorPath   == getPathToRoot(allNodes, id)
      isInSubBranch  == Resolves(allNodes, id) /\ findNodeById(allNodes, id).parentId # NoId
      allDescendants == IF ~isInSubBranch /\ ancestorPath # << >>
                          THEN getDescendants(allNodes, ancestorPath[1].id)
                          ELSE << >>
      contextNodes   == pinnedNodes \o ancestorPath \o allDescendants
  IN  [ pinnedCount       |-> Len(pinnedNodes),
        ancestorCount     |-> Len(ancestorPath),
        descendantCount   |-> Len(allDescendants),
        totalContextNodes |-> Len(pinnedNodes) + Len(ancestorPath) + Len(allDescendants),
        totalTokens       |-> sumTokenCount(contextNodes),
        isInSubBranch     |-> isInSubBranch,
        memoryType        |-> IF isInSubBranch THEN "isolated" ELSE "hierarchical" ]

\* no summary computed yet
NoSummary ==
  [ pinnedCount |-> 0, ancestorCount |-> 0, descendantCount |-> 0, totalContextNodes |-> 0,
    totalTokens |-> 0, isInSubBranch |-> FALSE, memoryType |-> "none" ]

(***************************************************************************)
(* treeReducer.  A reducer state is the node collection and two cursors.   *)
(***************************************************************************)
State == [nodes |-> nodes, activeNodeId |-> activeNodeId, selectedNodeId |-> selectedNodeId]

\* the attach step of ADD_NODE: the parent, looked up in updatedNodes
attachToParent(updatedNodes, newNode) ==
  IF newNode.parentId # NoId /\ Resolves(updatedNodes, newNode.parentId)
    THEN [updatedNodes EXCEPT ![findIndex(updatedNodes, newNode.parentId)] =
                                   addChildToNode(@, newNode.id)]
    ELSE updatedNodes

\* every new node made the active node
ADD_NODE_AlwaysActive(state, newNode) ==
  [state EXCEPT !.nodes = attachToParent(Append(state.nodes, newNode), newNode),
                !.activeNodeId = newNode.id]

\* the new node put in front of the store instead of behind it
ADD_NODE_Unshift(state, newNode) ==
  LET shouldSetActive == Len(state.nodes) = 0 \/ newNode.role = "assistant"
  IN  [state EXCEPT !.nodes = attachToParent(<<newNode>> \o state.nodes, newNode),
                    !.activeNodeId = IF shouldSetActive THEN newNode.id ELSE @]

\* case ADD_NODE
ADD_NODE(state, newNode) ==
  LET updatedNodes    == Append(state.nodes, newNode)
      shouldSetActive == Len(state.nodes) = 0 \/ newNode.role = "assistant"
  IN  [state EXCEPT !.nodes = attachToParent(updatedNodes, newNode),
                    !.activeNodeId = IF shouldSetActive THEN newNode.id ELSE @]

RECURSIVE childrenByParentId(_, _)
\* state.nodes.filter(n => n.parentId === nodeId)
childrenByParentId(ns, nodeId) ==
  IF ns = << >> THEN << >>
  ELSE (IF Head(ns).parentId = nodeId THEN <<Head(ns)>> ELSE << >>)
       \o childrenByParentId(Tail(ns), nodeId)

RECURSIVE reducerGetDescendants(_, _)
RECURSIVE descendantsOfEach(_, _)
\* children.forEach(child => descendants = [...descendants, ...getDescendants(child.id)])
descendantsOfEach(ns, children) ==
  IF children = << >> THEN << >>
  ELSE reducerGetDescendants(ns, Head(children).id) \o descendantsOfEach(ns, Tail(children))

\* the direct children only, the recursion forgotten
reducerGetChildrenOnly(ns, nodeId) == childrenByParentId(ns, nodeId)

\* getDescendants of case DELETE_NODE: along the parentId pointers
reducerGetDescendants(ns, nodeId) ==
  LET children == childrenByParentId(ns, nodeId)
  IN  children \o descendantsOfEach(ns, children)

\* nodeIdsToDelete of case DELETE_NODE
nodeIdsToDelete(ns, nodeIdToDelete) ==
  {nodeIdToDelete} \cup NodeIds(reducerGetDescendants(ns, nodeIdToDelete))

RECURSIVE filterOut(_, _)
\* state.nodes.filter(node => !nodeIdsToDelete.includes(node.id))
filterOut(ns, ids) ==
  IF ns = << >> THEN << >>
  ELSE (IF Head(ns).id \in ids THEN << >> ELSE <<Head(ns)>>) \o filterOut(Tail(ns), ids)

RECURSIVE withoutChild(_, _)
\* parentNode.children.filter(childId => childId !== nodeIdToDelete)
withoutChild(children, nodeIdToDelete) ==
  IF children = << >> THEN << >>
  ELSE (IF Head(children) = nodeIdToDelete THEN << >> ELSE <<Head(children)>>)
       \o withoutChild(Tail(children), nodeIdToDelete)

\* the detach step of DELETE_NODE: only the parent of the deleted node is touched
detachFromParent(stateNodes, filteredNodes, nodeIdToDelete) ==
  IF ~Resolves(stateNodes, nodeIdToDelete) THEN filteredNodes
  ELSE LET nodeToDelete == findNodeById(stateNodes, nodeIdToDelete) IN
       IF nodeToDelete.parentId # NoId /\ Resolves(filteredNodes, nodeToDelete.parentId)
         THEN [filteredNodes EXCEPT ![findIndex(filteredNodes, nodeToDelete.parentId)].children =
                                        withoutChild(@, nodeIdToDelete)]
         ELSE filteredNodes

\* the delete that leaves both cursors where they were
DELETE_NODE_KeepCursors(state, nodeIdToDelete) ==
  LET ids           == nodeIdsToDelete(state.nodes, nodeIdToDelete)
      filteredNodes == filterOut(state.nodes, ids)
  IN  [nodes          |-> detachFromParent(state.nodes, filteredNodes, nodeIdToDelete),
       activeNodeId   |-> state.activeNodeId,
       selectedNodeId |-> state.selectedNodeId]

\* case DELETE_NODE
DELETE_NODE(state, nodeIdToDelete) ==
  LET ids           == nodeIdsToDelete(state.nodes, nodeIdToDelete)
      filteredNodes == filterOut(state.nodes, ids)
      activeNodeAfterDelete ==
        IF state.activeNodeId \in ids
          THEN (IF Len(filteredNodes) > 0 THEN filteredNodes[1].id ELSE NoId)
          ELSE state.activeNodeId
  IN  [nodes          |-> detachFromParent(state.nodes, filteredNodes, nodeIdToDelete),
       activeNodeId   |-> activeNodeAfterDelete,
       selectedNodeId |-> IF state.selectedNodeId \in ids THEN NoId ELSE state.selectedNodeId]

\* case SET_ACTIVE_NODE
SET_ACTIVE_NODE(state, id) == [state EXCEPT !.activeNodeId = id]

\* case SET_SELECTED_NODE
SET_SELECTED_NODE(state, id) == [state EXCEPT !.selectedNodeId = id]

\* the clicked node toggled, the others left as they are
togglePinOnlyTarget(node, id) ==
  IF node.id = id
    THEN [node EXCEPT !.metadata.isPinned = ~node.metadata.isPinned]
    ELSE node

\* the map callback of case TOGGLE_PIN
togglePinOf(node, id) ==
  IF node.id = id
    THEN [node EXCEPT !.metadata.isPinned = ~node.metadata.isPinned]
    ELSE [node EXCEPT !.metadata.isPinned = FALSE]

\* a pin that also moves the active cursor to the pinned node
TOGGLE_PIN_Activating(state, id) ==
  [state EXCEPT !.nodes = [i \in 1..Len(state.nodes) |-> togglePinOf(state.nodes[i], id)],
                !.activeNodeId = id]

\* case TOGGLE_PIN
TOGGLE_PIN(state, id) ==
  [state EXCEPT !.nodes = [i \in 1..Len(state.nodes) |-> togglePinOf(state.nodes[i], id)]]

\* the reducer's result becomes the provider's state
Commit(state) ==
  /\ nodes' = state.nodes
  /\ activeNodeId' = state.activeNodeId
  /\ selectedNodeId' = state.selectedNodeId

(***************************************************************************)
(* The application: TreeProvider, useChatTree and the components.          *)
(***************************************************************************)
\* Date.now(): the clock never runs backwards; two calls may read the same value
Clock == {t \in {now, now + 1} : t <= MaxClock}

\* the two places a request starts from; each blocks itself while it waits
\* (MessageInput on isLoading, Terminal on isProcessing)
Channels == {"input", "terminal"}

\* an input that waits for every outstanding reply
BusyAny(via) == pending # {}

Busy(via) == \E r \in pending : r.via = via

\* no operation applied yet
NoCall == [op |-> "none", id |-> NoId, text |-> "",
           state |-> [nodes |-> << >>, activeNodeId |-> NoId, selectedNodeId |-> NoId]]

Init ==
  /\ nodes = << >>
  /\ activeNodeId = NoId
  /\ selectedNodeId = NoId
  /\ pending = {}
  /\ fallback = {}
  /\ projectId = DefaultProject
  /\ nextId = 1
  /\ now = 1
  /\ context = << >>
  /\ summary = NoSummary
  /\ call = NoCall

\* createInitialNode, run by ChatTree whenever the collection is empty
createInitialNode ==
  /\ Len(nodes) = 0
  /\ nextId <= MaxIds
  /\ \E ts \in Clock :
       /\ Commit(ADD_NODE(State, createNode(nextId, ts, NoId, "user", WelcomeText, UserMetadata)))
       /\ now' = ts
  /\ nextId' = nextId + 1
  /\ UNCHANGED <<pending, fallback, projectId, context, call, summary>>

\* the part of sendMessage / branchFromNode before the await: the user node is
\* added, the context is compiled from the nodes of the render, the request leaves
startRequest(parentNodeId, messageText, via) ==
  /\ nextId <= MaxIds
  /\ \E ts \in Clock :
       /\ Commit(ADD_NODE(State, createNode(nextId, ts, parentNodeId, "user",
                                            trim(messageText), UserMetadata)))
       /\ now' = ts
  /\ context' = compileContext(nodes, parentNodeId, messageText)
  /\ pending' = pending \cup {[userNodeId |-> nextId, via |-> via,
                               prompt |-> messageText, projectId |-> projectId]}
  /\ nextId' = nextId + 1
  /\ UNCHANGED <<fallback, projectId, call, summary>>

\* sendMessage, from the message input or the terminal's send
sendMessage(messageText, via) ==
  /\ ~Busy(via)
  /\ activeNodeId # NoId
  /\ trim(messageText) # ""
  /\ LET pinnedNodes  == SelectPinned(nodes)
         parentNodeId == IF pinnedNodes # << >> THEN pinnedNodes[1].id ELSE activeNodeId
     IN  startRequest(parentNodeId, messageText, via)

\* branchFromNode, reached from the terminal's branch (handleBranch looks the node up)
branchFromNode(nodeId, messageText) ==
  /\ ~Busy("terminal")
  /\ Resolves(nodes, nodeId)
  /\ trim(messageText) # ""
  /\ startRequest(nodeId, messageText, "terminal")

\* the part of sendMessage / branchFromNode after the await: the reply node is
\* added under the user node and made active
replyArrives(r, aiResponse) ==
  /\ r \in pending
  /\ nextId <= MaxIds
  /\ \E ts \in Clock :
       /\ LET aiNode == createNode(nextId, ts, r.userNodeId, "assistant", aiResponse,
                                   ReplyMetadata(aiResponse))
          IN  Commit(SET_ACTIVE_NODE(ADD_NODE(State, aiNode), aiNode.id))
       /\ now' = ts
  /\ pending' = pending \ {r}
  /\ fallback' = fallback \ {r.userNodeId}
  /\ nextId' = nextId + 1
  /\ UNCHANGED <<projectId, context, call, summary>>

\* sendToGemini throws (no key, network, HTTP status, response format): the
\* handler's catch turns to sendToMockLLM; only the hook's own error flag is set
providerFails(r) ==
  /\ r \in pending
  /\ r.userNodeId \notin fallback
  /\ fallback' = fallback \cup {r.userNodeId}
  /\ UNCHANGED <<nodes, activeNodeId, selectedNodeId, pending, projectId, nextId, now, context,
                 call, summary>>

\* a handler whose catch gives up instead of turning to sendToMockLLM
ResponsesRethrow(r) ==
  IF r.userNodeId \in fallback THEN {} ELSE ProviderTexts

\* what onLLMResponse resolves to: the provider's text, or the stand-in on failure
Responses(r) ==
  IF r.userNodeId \in fallback
    THEN {sendToMockLLM(<<Message("user", r.prompt)>>)}
    ELSE ProviderTexts

\* deleteNode, from a node's button or the terminal's delete
deleteNode(nodeId) ==
  /\ Resolves(nodes, nodeId)
  /\ Commit(DELETE_NODE(State, nodeId))
  /\ UNCHANGED <<pending, fallback, projectId, nextId, now, context, call, summary>>

\* togglePin, from a node's button, the context panel or the terminal's pin
togglePin(nodeId) ==
  /\ Resolves(nodes, nodeId)
  /\ Commit(TOGGLE_PIN(State, nodeId))
  /\ UNCHANGED <<pending, fallback, projectId, nextId, now, context, call, summary>>

\* setActiveNode, from a node's double click or the terminal's checkout
setActiveNode(nodeId) ==
  /\ Resolves(nodes, nodeId)
  /\ Commit(SET_ACTIVE_NODE(State, nodeId))
  /\ UNCHANGED <<pending, fallback, projectId, nextId, now, context, call, summary>>

\* setSelectedNode, from a node's click
setSelectedNode(nodeId) ==
  /\ Resolves(nodes, nodeId)
  /\ Commit(SET_SELECTED_NODE(State, nodeId))
  /\ UNCHANGED <<pending, fallback, projectId, nextId, now, context, call, summary>>

\* handleResultClick of the search bar: the result list is a snapshot, so the
\* id is one that was in the store when the search ran
handleResultClick(resultId) ==
  /\ resultId \in 1..(nextId - 1)
  /\ Commit(SET_ACTIVE_NODE(SET_SELECTED_NODE(State, resultId), resultId))
  /\ UNCHANGED <<pending, fallback, projectId, nextId, now, context, call, summary>>

\* the steps that create no node
Others ==
  \/ \E r \in pending : providerFails(r)
  \/ \E nodeId \in 1..MaxIds : deleteNode(nodeId)
  \/ \E nodeId \in 1..MaxIds : togglePin(nodeId)
  \/ \E nodeId \in 1..MaxIds : setActiveNode(nodeId)
  \/ \E nodeId \in 1..MaxIds : setSelectedNode(nodeId)
  \/ \E resultId \in 1..MaxIds : handleResultClick(resultId)

\* the application is followed while it has handed out fewer than MaxNodes ids
Bounded == nextId <= MaxNodes

Next ==
  \/ Bounded /\ createInitialNode
  \/ \E messageText \in MessageTexts, via \in Channels :
       Bounded /\ sendMessage(messageText, via)
  \/ \E nodeId \in 1..MaxIds, messageText \in MessageTexts :
       Bounded /\ branchFromNode(nodeId, messageText)
  \/ \E r \in pending : \E aiResponse \in Responses(r) : Bounded /\ replyArrives(r, aiResponse)
  \/ Others

Spec == Init /\ [][Next]_vars

(***************************************************************************)
(* Stores a project load can install.  loadTree returns whatever array the *)
(* saved project holds and LOAD_PROJECT installs it unchecked, so any set  *)
(* of nodes may be pinned, timestamps are free and a parentId may name a   *)
(* node that is not there.  Ids are unique, a parent is stored before its  *)
(* children and the children lists mirror the parentId pointers.           *)
(***************************************************************************)
\* an id no stored node has
(***************************************************************************)
(* The application with the provider's completion scheduled fairly: every  *)
(* request a handler awaits is eventually resolved or rejected by fetch    *)
(* or by the timer of sendToMockLLM.  The steps are those of Next; ids are *)
(* handed out only while one stays for the reply of each request.          *)
(***************************************************************************)
providerCompletes(via) ==
  \E r \in pending :
    /\ r.via = via
    /\ \/ \E aiResponse \in Responses(r) : replyArrives(r, aiResponse)
       \/ providerFails(r)

\* an id stays for the reply of every outstanding request
Reserved == nextId' + Cardinality(pending') <= MaxNodes + 1

NextFair ==
  \/ createInitialNode /\ Reserved
  \/ \E messageText \in MessageTexts, via \in Channels :
       sendMessage(messageText, via) /\ Reserved
  \/ \E nodeId \in 1..MaxIds, messageText \in MessageTexts :
       branchFromNode(nodeId, messageText) /\ Reserved
  \/ \E r \in pending : \E aiResponse \in Responses(r) : replyArrives(r, aiResponse) /\ Reserved
  \/ Others

SpecFair ==
  Init /\ [][NextFair]_vars /\ \A via \in Channels : WF_vars(providerCompletes(via))

DanglingId == MaxStore + 1

StoredRole(i) == IF i % 2 = 1 THEN "user" ELSE "assistant"

StoredContent(i) == IF i % 3 = 1 THEN "hi" ELSE IF i % 3 = 2 THEN "Sure." ELSE "ok"

ParentMaps(n) == {p \in [1..n -> 0..DanglingId] : \A i \in 1..n : p[i] < i \/ p[i] = DanglingId}

RECURSIVE idsWithParent(_, _, _)
\* the ids i..n whose parent is k, ascending
idsWithParent(p, k, i) ==
  IF i > Len(p) THEN << >>
  ELSE (IF p[i] = k THEN <<i>> ELSE << >>) \o idsWithParent(p, k, i + 1)

StoredNode(i, p, pin, ts) ==
  [ id       |-> i,
    parentId |-> p[i],
    children |-> idsWithParent(p, i, 1),
    role     |-> StoredRole(i),
    content  |-> StoredContent(i),
    metadata |-> [ timestamp  |-> ts[i],
                   modelUsed  |-> IF StoredRole(i) = "assistant" THEN GeminiModel ELSE "null",
                   tokenCount |-> IF StoredRole(i) = "assistant"
                                    THEN tokenEstimate(StoredContent(i)) ELSE 0,
                   isPinned   |-> pin[i] ] ]

\* the store of n nodes with these parents, pins and timestamps
Store(n, p, pin, ts) == [i \in 1..n |-> StoredNode(i, p, pin, ts)]

\* nodes is a store of at most MaxStore nodes whose timestamps are drawn from clocks
LoadedStore(clocks) ==
  \E n \in 0..MaxStore :
    \E p \in ParentMaps(n), pin \in [1..n -> BOOLEAN], ts \in [1..n -> clocks] :
      nodes = Store(n, p, pin, ts)

\* case LOAD_PROJECT with the active node loadProject picks: the last assistant
\* node, else the first node, else none
defaultActiveNodeId(loadedNodes) ==
  LET assistants == {i \in 1..Len(loadedNodes) : loadedNodes[i].role = "assistant"}
  IN  IF assistants # {}
        THEN loadedNodes[CHOOSE i \in assistants : \A j \in assistants : j <= i].id
        ELSE IF Len(loadedNodes) > 0 THEN loadedNodes[1].id ELSE NoId

LOAD_PROJECT(state, loadedNodes) ==
  [state EXCEPT !.nodes = loadedNodes, !.activeNodeId = defaultActiveNodeId(loadedNodes)]

(***************************************************************************)
(* SpecStore: the reducer applied to a loaded store.  Each step records    *)
(* the operation, its argument and the state it was applied to.  The       *)
(* reducer compares ids and never looks the argument up first.             *)
(***************************************************************************)
InitStore ==
  /\ LoadedStore({1})
  /\ activeNodeId = defaultActiveNodeId(nodes)
  /\ selectedNodeId \in {NoId} \cup NodeIds(nodes)
  /\ pending = {}
  /\ fallback = {}
  /\ projectId = DefaultProject
  /\ nextId = DanglingId + 1
  /\ now = 1
  /\ context = << >>
  /\ summary = NoSummary
  /\ call = NoCall

Record(op, id, text) == call' = [op |-> op, id |-> id, text |-> text, state |-> State]

applyDeleteNode(nodeId) ==
  /\ Commit(DELETE_NODE(State, nodeId))
  /\ Record("DELETE_NODE", nodeId, "")
  /\ UNCHANGED <<pending, fallback, projectId, nextId, now, context, summary>>

applyTogglePin(nodeId) ==
  /\ Commit(TOGGLE_PIN(State, nodeId))
  /\ Record("TOGGLE_PIN", nodeId, "")
  /\ UNCHANGED <<pending, fallback, projectId, nextId, now, context, summary>>

\* addNode(nodeData) with the metadata the callers pass; the parent may be a
\* node, none, or an id that names no node
applyAddNode(parentId, role) ==
  /\ Commit(ADD_NODE(State, createNode(nextId, now, parentId, role, "ok", UserMetadata)))
  /\ nextId' = nextId + 1
  /\ Record("ADD_NODE", nextId, "")
  /\ UNCHANGED <<pending, fallback, projectId, now, context, summary>>

\* the reducer takes any id, one that names no node included
NextStore ==
  \/ \E nodeId \in 1..DanglingId : applyDeleteNode(nodeId)
  \/ \E nodeId \in 1..DanglingId : applyTogglePin(nodeId)

SpecStore == InitStore /\ [][NextStore]_vars

(***************************************************************************)
(* SpecCompile: compileContext applied to a loaded store.                  *)
(***************************************************************************)
Prompts == {"ok", "why?"}

\* an earlier and a later creation time
StoredClocks == {1, 2}

InitCompile ==
  /\ LoadedStore(StoredClocks)
  /\ activeNodeId = defaultActiveNodeId(nodes)
  /\ selectedNodeId = NoId
  /\ pending = {}
  /\ fallback = {}
  /\ projectId = DefaultProject
  /\ nextId = DanglingId + 1
  /\ now = 1
  /\ context = << >>
  /\ summary = NoSummary
  /\ call = NoCall

\* one call per behaviour: the function is pure and reads only the store
applyCompileContext(id, newPromptText) ==
  /\ call = NoCall
  /\ context' = compileContext(nodes, id, newPromptText)
  /\ Record("compileContext", id, newPromptText)
  /\ UNCHANGED <<nodes, activeNodeId, selectedNodeId, pending, fallback, projectId, nextId, now, summary>>

NextCompile ==
  \E id \in 0..DanglingId, newPromptText \in Prompts : applyCompileContext(id, newPromptText)

SpecCompile == InitCompile /\ [][NextCompile]_vars

(***************************************************************************)
(* SpecApi: the operations the provider hands out (addNode, updateNode,    *)
(* deleteNode, togglePin, loadProject), called with any arguments they     *)
(* accept.                                                                 *)
(***************************************************************************)
\* { ...node, ...updates }
mergeUpdates(node, updates) ==
  [f \in DOMAIN node |-> IF f \in DOMAIN updates THEN updates[f] ELSE node[f]]

\* case UPDATE_NODE
UPDATE_NODE(state, id, updates) ==
  [state EXCEPT !.nodes = [i \in 1..Len(state.nodes) |->
                             IF state.nodes[i].id = id
                               THEN mergeUpdates(state.nodes[i], updates)
                               ELSE state.nodes[i]]]

\* updates a caller can pass for a node: its metadata with the pin flag set either way
MetadataUpdates(node) == {[metadata |-> [node.metadata EXCEPT !.isPinned = b]] : b \in BOOLEAN}

InitApi ==
  /\ nodes = << >>
  /\ activeNodeId = NoId
  /\ selectedNodeId = NoId
  /\ pending = {}
  /\ fallback = {}
  /\ projectId = DefaultProject
  /\ nextId = DanglingId + 1
  /\ now = 1
  /\ context = << >>
  /\ summary = NoSummary
  /\ call = NoCall

\* addNode(nodeData): createNode spreads nodeData.metadata over the defaults
addNode(parentId, role, content, metadata) ==
  /\ nextId <= DanglingId + MaxNodes
  /\ Len(nodes) < MaxStore
  /\ Commit(ADD_NODE(State, createNode(nextId, now, parentId, role, content, metadata)))
  /\ nextId' = nextId + 1
  /\ UNCHANGED <<pending, fallback, projectId, now, context, call, summary>>

\* updateNode(nodeId, updates)
updateNode(nodeId, updates) ==
  /\ Commit(UPDATE_NODE(State, nodeId, updates))
  /\ UNCHANGED <<pending, fallback, projectId, nextId, now, context, call, summary>>

\* loadProject(projectId): whatever loadTree returns is installed
loadProject(newProjectId, loadedNodes) ==
  /\ Commit(LOAD_PROJECT(State, loadedNodes))
  /\ projectId' = newProjectId
  /\ UNCHANGED <<pending, fallback, nextId, now, context, call, summary>>

NextApi ==
  \/ \E parentId \in {NoId} \cup NodeIds(nodes), role \in Roles, isPinned \in BOOLEAN :
       addNode(parentId, role, "ok",
               [isPinned |-> isPinned, modelUsed |-> "null", tokenCount |-> 0])
  \/ \E i \in 1..Len(nodes) : \E updates \in MetadataUpdates(nodes[i]) :
       updateNode(nodes[i].id, updates)
  \/ \E nodeId \in NodeIds(nodes) : deleteNode(nodeId)
  \/ \E nodeId \in NodeIds(nodes) : togglePin(nodeId)
  \/ \E n \in 0..MaxStore :
       \E p \in ParentMaps(n), pin \in [1..n -> BOOLEAN] :
         \E newProjectId \in {DefaultProject, DefaultProject + 1} :
           loadProject(newProjectId, Store(n, p, pin, [i \in 1..n |-> 1]))

SpecApi == InitApi /\ [][NextApi]_vars

(***************************************************************************)
(* SpecStep: one reducer action applied to a loaded store with any         *)
(* selected cursor.                                                        *)
(***************************************************************************)
\* updateNode(nodeId, updates)
applyUpdateNode(nodeId, updates) ==
  /\ Commit(UPDATE_NODE(State, nodeId, updates))
  /\ Record("UPDATE_NODE", nodeId, "")
  /\ UNCHANGED <<pending, fallback, projectId, nextId, now, context, summary>>

\* one action per behaviour
NextStep ==
  \/ \E parentId \in {NoId, DanglingId} \cup NodeIds(nodes), role \in Roles :
       call = NoCall /\ applyAddNode(parentId, role)
  \/ \E nodeId \in 1..DanglingId : call = NoCall /\ applyDeleteNode(nodeId)
  \/ \E nodeId \in 1..DanglingId : call = NoCall /\ applyTogglePin(nodeId)
  \/ \E i \in 1..Len(nodes) : \E updates \in MetadataUpdates(nodes[i]) :
       call = NoCall /\ applyUpdateNode(nodes[i].id, updates)
  \/ \E nodeId \in 1..DanglingId :
       call = NoCall /\ applyUpdateNode(nodeId, [content |-> "edited"])

SpecStep == InitStore /\ [][NextStep]_vars

(***************************************************************************)
(* SpecSummary: getContextSummary applied to a loaded store.               *)
(***************************************************************************)
InitSummary ==
  /\ LoadedStore({1})
  /\ activeNodeId = defaultActiveNodeId(nodes)
  /\ selectedNodeId = NoId
  /\ pending = {}
  /\ fallback = {}
  /\ projectId = DefaultProject
  /\ nextId = DanglingId + 1
  /\ now = 1
  /\ context = << >>
  /\ summary = NoSummary
  /\ call = NoCall

\* one call per behaviour: the function is pure and reads only the store
applyGetContextSummary(id) ==
  /\ call = NoCall
  /\ summary' = getContextSummary(nodes, id)
  /\ Record("getContextSummary", id, "")
  /\ UNCHANGED <<nodes, activeNodeId, selectedNodeId, pending, fallback, projectId, nextId, now, context>>

NextSummary == \E id \in 0..DanglingId : applyGetContextSummary(id)

SpecSummary == InitSummary /\ [][NextSummary]_vars

(***************************************************************************)
(* SpecWalk: the loops of getPathToRoot and getNodeDepth, one iteration a  *)
(* step, on a store as LOAD_PROJECT installs it: loadTree hands over the   *)
(* persisted nodes unchecked, so a parentId may name any node, the node    *)
(* itself included, or none.  context holds the path built so far (for     *)
(* getNodeDepth the nodes counted so far) and call.id the loop's           *)
(* currentNode, NoId when it is undefined or null.                         *)
(***************************************************************************)
(***************************************************************************)
(* SpecLoad: loadProject and the toolbar's import on a loaded store, with  *)
(* what localStorage or the chosen file may hold: nothing, text that is    *)
(* not JSON, a wrapper without nodes, a wrapper whose nodes is not an      *)
(* array, or a project.                                                    *)
(***************************************************************************)
PayloadKinds == {"missing", "unparseable", "no nodes", "not an array", "project"}

Malformed == {"unparseable", "no nodes", "not an array"}

Payload(kind, storedNodes) == [kind |-> kind, nodes |-> storedNodes]

\* loadTree: null for a missing item or a parse error, else projectData.nodes || []
\* (result "null", "nodes", or "other" for a nodes field that is no array)
loadTree(data) ==
  IF data.kind \in {"missing", "unparseable"} THEN [result |-> "null", nodes |-> << >>]
  ELSE IF data.kind = "no nodes" THEN [result |-> "nodes", nodes |-> << >>]
  ELSE IF data.kind = "not an array" THEN [result |-> "other", nodes |-> << >>]
  ELSE [result |-> "nodes", nodes |-> data.nodes]

\* importTree: null for a parse error or nodes that is absent or no array
importTree(data) ==
  IF data.kind = "project"
    THEN [result |-> "nodes", nodes |-> data.nodes]
    ELSE [result |-> "null", nodes |-> << >>]

\* the body of loadProject: loadedNodes = nodes || []; nodes that is not an array
\* throws at loadedNodes.filter and ends in SET_ERROR, which leaves the tree
loadProjectOf(state, data) ==
  IF loadTree(data).result = "other"
    THEN state
    ELSE LOAD_PROJECT(state, loadTree(data).nodes)

\* the project id LOAD_PROJECT leaves: the one asked for, unless SET_ERROR ran
projectIdOf(current, asked, data) ==
  IF loadTree(data).result = "other" THEN current ELSE asked

applyLoadProject(data) ==
  /\ call = NoCall
  /\ Commit(loadProjectOf(State, data))
  /\ projectId' = projectIdOf(projectId, projectId + 1, data)
  /\ Record("loadProject", NoId, data.kind)
  /\ UNCHANGED <<pending, fallback, nextId, now, context, summary>>

\* handleImport: a null from importTree is reported and nothing else happens;
\* otherwise loadProject runs on a project id made up on the spot, which has no
\* item in localStorage
handleImport(data) ==
  /\ call = NoCall
  /\ IF importTree(data).result = "null"
       THEN UNCHANGED <<nodes, activeNodeId, selectedNodeId, projectId>>
       ELSE /\ Commit(loadProjectOf(State, Payload("missing", << >>)))
            /\ projectId' = projectIdOf(projectId, projectId + 1, Payload("missing", << >>))
  /\ Record("handleImport", NoId, data.kind)
  /\ UNCHANGED <<pending, fallback, nextId, now, context, summary>>

Payloads ==
  {Payload(kind, << >>) : kind \in PayloadKinds \ {"project"}}
    \cup {Payload("project", Store(n, [i \in 1..n |-> i - 1], [i \in 1..n |-> FALSE],
                                   [i \in 1..n |-> 1])) : n \in 0..MaxStore}

NextLoad ==
  \/ \E data \in Payloads : applyLoadProject(data)
  \/ \E data \in Payloads : handleImport(data)

SpecLoad == InitStore /\ [][NextLoad]_vars

(***************************************************************************)
(* SpecValidate: validateContext applied to a list of messages of any      *)
(* lengths, the empty list included, or to the list compileContext makes   *)
(* of a loaded store.  context holds the list, summary what validateContext *)
(* returned for it, call the token budget.                                 *)
(***************************************************************************)
MaxMessages == 2

\* contents of 0, 1, 4 and 5 characters
MsgContents == {"", "a", "abcd", "abcde"}

Budgets == 0..3

RECURSIVE totalTokensOf(_)
\* contextMessages.reduce((sum, msg) => sum + Math.ceil(msg.content.length / 4), 0)
totalTokensOf(contextMessages) ==
  IF contextMessages = << >> THEN 0
  ELSE tokenEstimate(Head(contextMessages).content) + totalTokensOf(Tail(contextMessages))

OverLimit == "Context may exceed token limit"

NoMessages == "No context messages found"

\* the limit test with >= in place of >
validateContextAtLimit(contextMessages, maxTokens) ==
  LET totalTokens == totalTokensOf(contextMessages)
      warnings    == (IF totalTokens >= maxTokens THEN <<OverLimit>> ELSE << >>)
                       \o (IF Len(contextMessages) = 0 THEN <<NoMessages>> ELSE << >>)
  IN  [isValid |-> Len(warnings) = 0, totalTokens |-> totalTokens, warnings |-> warnings]

\* validateContext
validateContext(contextMessages, maxTokens) ==
  LET totalTokens == totalTokensOf(contextMessages)
      warnings    == (IF totalTokens > maxTokens THEN <<OverLimit>> ELSE << >>)
                       \o (IF Len(contextMessages) = 0 THEN <<NoMessages>> ELSE << >>)
  IN  [isValid |-> Len(warnings) = 0, totalTokens |-> totalTokens, warnings |-> warnings]

MessageLists ==
  UNION {[1..n -> {Message("user", c) : c \in MsgContents}] : n \in 0..MaxMessages}

RecordValidate(op, maxTokens) ==
  call' = [op |-> op, id |-> NoId, text |-> "", state |-> State, maxTokens |-> maxTokens]

\* one call per behaviour, on any list
applyValidateContext(contextMessages, maxTokens) ==
  /\ call = NoCall
  /\ context' = contextMessages
  /\ summary' = validateContext(contextMessages, maxTokens)
  /\ RecordValidate("validateContext", maxTokens)
  /\ UNCHANGED <<nodes, activeNodeId, selectedNodeId, pending, fallback, projectId, nextId, now>>

\* one call per behaviour, on the list compileContext returns
applyValidateCompiled(id, newPromptText, maxTokens) ==
  /\ call = NoCall
  /\ context' = compileContext(nodes, id, newPromptText)
  /\ summary' = validateContext(compileContext(nodes, id, newPromptText), maxTokens)
  /\ RecordValidate("validateCompiled", maxTokens)
  /\ UNCHANGED <<nodes, activeNodeId, selectedNodeId, pending, fallback, projectId, nextId, now>>

NextValidate ==
  \/ \E contextMessages \in MessageLists, maxTokens \in Budgets :
       applyValidateContext(contextMessages, maxTokens)
  \/ \E id \in 0..DanglingId, newPromptText \in MessageTexts, maxTokens \in Budgets :
       applyValidateCompiled(id, newPromptText, maxTokens)

SpecValidate == InitSummary /\ [][NextValidate]_vars

(***************************************************************************)
(* SpecAttach: addChildToNode applied to a node of a loaded store and any  *)
(* id, a child of the node or not, and then once more with the same        *)
(* arguments.  call holds the arguments and the store before the first     *)
(* application.                                                            *)
(***************************************************************************)
RecordAttach(parentId, childId, times, before) ==
  call' = [op |-> "addChildToNode", id |-> childId, text |-> times, state |-> before,
           parentId |-> parentId]

applyAddChildToNode(parentId, childId) ==
  /\ call = NoCall
  /\ Resolves(nodes, parentId)
  /\ nodes' = [nodes EXCEPT ![findIndex(nodes, parentId)] = addChildToNode(@, childId)]
  /\ RecordAttach(parentId, childId, "once", State)
  /\ UNCHANGED <<activeNodeId, selectedNodeId, pending, fallback, projectId, nextId, now,
                 context, summary>>

repeatAddChildToNode ==
  /\ call.op = "addChildToNode"
  /\ call.text = "once"
  /\ nodes' = [nodes EXCEPT ![findIndex(nodes, call.parentId)] = addChildToNode(@, call.id)]
  /\ RecordAttach(call.parentId, call.id, "twice", call.state)
  /\ UNCHANGED <<activeNodeId, selectedNodeId, pending, fallback, projectId, nextId, now,
                 context, summary>>

NextAttach ==
  \/ \E parentId \in 1..MaxStore, childId \in 1..(DanglingId + 1) :
       applyAddChildToNode(parentId, childId)
  \/ repeatAddChildToNode

SpecAttach == InitStore /\ [][NextAttach]_vars

(***************************************************************************)
(* SpecDescend: getDescendants on a loaded store, or on one that a node    *)
(* has been added to; context holds the list it returned for call.id.      *)
(***************************************************************************)
InitDescend ==
  /\ \E n \in 0..MaxStore :
       \E p \in ParentMaps(n) :
         nodes = Store(n, p, [i \in 1..n |-> FALSE], [i \in 1..n |-> 1])
  /\ activeNodeId = defaultActiveNodeId(nodes)
  /\ selectedNodeId = NoId
  /\ pending = {}
  /\ fallback = {}
  /\ projectId = DefaultProject
  /\ nextId = DanglingId + 1
  /\ now = 1
  /\ context = << >>
  /\ summary = NoSummary
  /\ call = NoCall

applyGetDescendants(nodeId) ==
  /\ call.op # "getDescendants"
  /\ context' = getDescendants(nodes, nodeId)
  /\ Record("getDescendants", nodeId, "")
  /\ UNCHANGED <<nodes, activeNodeId, selectedNodeId, pending, fallback, projectId, nextId, now, summary>>

NextDescend ==
  \/ \E parentId \in {NoId, DanglingId} \cup NodeIds(nodes), role \in Roles :
       call = NoCall /\ applyAddNode(parentId, role)
  \/ \E nodeId \in 1..nextId : applyGetDescendants(nodeId)

SpecDescend == InitDescend /\ [][NextDescend]_vars

(***************************************************************************)
(* SpecReplies: the application with ids enough for two requests to be     *)
(* outstanding at once and a reply to arrive, followed while the clock     *)
(* stands still.                                                           *)
(***************************************************************************)
\* Date.now() gives the value it gave last
SameClock == now' = now

NextReplies ==
  \/ createInitialNode /\ SameClock
  \/ \E messageText \in MessageTexts, via \in Channels :
       sendMessage(messageText, via) /\ SameClock
  \/ \E nodeId \in 1..MaxIds, messageText \in MessageTexts :
       branchFromNode(nodeId, messageText) /\ SameClock
  \/ \E r \in pending : \E aiResponse \in Responses(r) : replyArrives(r, aiResponse) /\ SameClock
  \/ Others

SpecReplies == Init /\ [][NextReplies]_vars

(***************************************************************************)
(* SpecProject: the application with the toolbar's New Project.  The new   *)
(* project id has no item in localStorage, so loadProject installs what    *)
(* it makes of a missing item; requests that are outstanding stay so.      *)
(***************************************************************************)
handleNewProject ==
  /\ projectId < MaxProjects
  /\ Commit(loadProjectOf(State, Payload("missing", << >>)))
  /\ projectId' = projectIdOf(projectId, projectId + 1, Payload("missing", << >>))
  /\ UNCHANGED <<pending, fallback, nextId, now, context, call, summary>>

NextProject == Next \/ handleNewProject

SpecProject == Init /\ [][NextProject]_vars

RECURSIVE getNodeDepth(_, _)
\* getNodeDepth of useChatTree on a store without cycles: one more for every
\* node of the chain that has a parentId, whether or not that parent is found
getNodeDepth(allNodes, nodeId) ==
  IF ~Resolves(allNodes, nodeId) THEN 0
  ELSE IF findNodeById(allNodes, nodeId).parentId = NoId THEN 0
  ELSE 1 + getNodeDepth(allNodes, findNodeById(allNodes, nodeId).parentId)

AnyParentMaps(n) == [1..n -> 0..DanglingId]

InitWalk ==
  /\ \E n \in 1..MaxStore :
       \E p \in AnyParentMaps(n) :
         nodes = Store(n, p, [i \in 1..n |-> FALSE], [i \in 1..n |-> 1])
  /\ activeNodeId = NoId
  /\ selectedNodeId = NoId
  /\ pending = {}
  /\ fallback = {}
  /\ projectId = DefaultProject
  /\ nextId = DanglingId + 1
  /\ now = 1
  /\ context = << >>
  /\ summary = NoSummary
  /\ call = NoCall

\* findNodeById(nodes, id) as the loops use it: the node's id, or NoId for undefined
found(id) == IF Resolves(nodes, id) THEN id ELSE NoId

walkFrame == UNCHANGED <<nodes, activeNodeId, selectedNodeId, pending, fallback, projectId, nextId, now, summary>>

\* const path = []; let currentNode = findNodeById(nodes, nodeId)
beginGetPathToRoot(nodeId) ==
  /\ call = NoCall
  /\ context' = << >>
  /\ call' = [op |-> "getPathToRoot", id |-> found(nodeId), text |-> "running", state |-> State]
  /\ walkFrame

\* while (currentNode) { path.unshift(currentNode); currentNode = parent or null }
loopGetPathToRoot ==
  /\ call.op = "getPathToRoot"
  /\ call.text = "running"
  /\ call.id # NoId
  /\ Len(context) < MaxWalk
  /\ LET currentNode == findNodeById(nodes, call.id)
     IN  /\ context' = <<currentNode>> \o context
         /\ call' = [call EXCEPT !.id = IF currentNode.parentId # NoId
                                          THEN found(currentNode.parentId) ELSE NoId]
  /\ walkFrame

\* return path
returnGetPathToRoot ==
  /\ call.op = "getPathToRoot"
  /\ call.text = "running"
  /\ call.id = NoId
  /\ call' = [call EXCEPT !.text = "returned"]
  /\ UNCHANGED context
  /\ walkFrame

\* let depth = 0; let currentNode = nodes.find(n => n.id === nodeId)
beginGetNodeDepth(nodeId) ==
  /\ call = NoCall
  /\ context' = << >>
  /\ call' = [op |-> "getNodeDepth", id |-> found(nodeId), text |-> "running", state |-> State]
  /\ walkFrame

\* while (currentNode && currentNode.parentId) { depth++; currentNode = parent }
loopGetNodeDepth ==
  /\ call.op = "getNodeDepth"
  /\ call.text = "running"
  /\ call.id # NoId
  /\ findNodeById(nodes, call.id).parentId # NoId
  /\ Len(context) < MaxWalk
  /\ LET currentNode == findNodeById(nodes, call.id)
     IN  /\ context' = Append(context, currentNode)
         /\ call' = [call EXCEPT !.id = found(currentNode.parentId)]
  /\ walkFrame

\* return depth
returnGetNodeDepth ==
  /\ call.op = "getNodeDepth"
  /\ call.text = "running"
  /\ IF call.id = NoId THEN TRUE ELSE findNodeById(nodes, call.id).parentId = NoId
  /\ call' = [call EXCEPT !.text = "returned"]
  /\ UNCHANGED context
  /\ walkFrame

NextWalk ==
  \/ \E nodeId \in 1..DanglingId : beginGetPathToRoot(nodeId)
  \/ loopGetPathToRoot
  \/ returnGetPathToRoot
  \/ \E nodeId \in 1..DanglingId : beginGetNodeDepth(nodeId)
  \/ loopGetNodeDepth
  \/ returnGetNodeDepth

SpecWalk == InitWalk /\ [][NextWalk]_vars

(***************************************************************************)
(* Vocabulary of the properties: the tree as the parentId pointers define  *)
(* it, independent of how the code walks it.                               *)
(***************************************************************************)
PinnedIds(ns) == {ns[i].id : i \in {j \in 1..Len(ns) : ns[j].metadata.isPinned}}

RECURSIVE AncestorsOrSelf(_, _)
\* the id, its parent, its parent's parent, ... as far as they resolve
AncestorsOrSelf(ns, id) ==
  IF ~Resolves(ns, id) THEN {}
  ELSE {id} \cup (IF findNodeById(ns, id).parentId # NoId
                    THEN AncestorsOrSelf(ns, findNodeById(ns, id).parentId)
                    ELSE {})

\* X and every node below it
SubtreeIds(ns, X) == {id \in NodeIds(ns) : X \in AncestorsOrSelf(ns, id)}

\* every node below X
DescendantIds(ns, X) == SubtreeIds(ns, X) \ {X}

\* the node with everything but the pin flag
Unpinned(n) == [n EXCEPT !.metadata.isPinned = FALSE]

(***************************************************************************)
(* C1.  Parent and children pointers agree in every reachable state: a     *)
(* parentId that is present resolves to a node whose children hold the     *)
(* node's id, and every id in a children list resolves to a node whose     *)
(* parentId is the owner of the list.                                      *)
(***************************************************************************)
ParentChildConsistent ==
  \A i \in 1..Len(nodes) :
    LET n == nodes[i] IN
    /\ n.parentId # NoId =>
         /\ Resolves(nodes, n.parentId)
         /\ InSeq(n.id, findNodeById(nodes, n.parentId).children)
    /\ \A k \in 1..Len(n.children) :
         /\ Resolves(nodes, n.children[k])
         /\ findNodeById(nodes, n.children[k]).parentId = n.id

(***************************************************************************)
(* C2.  A reply is never inserted as an orphan: every step that adds an    *)
(* assistant node adds it under a parent that resolves; a reply whose user *)
(* node is gone adds nothing and leaves the active cursor alone.           *)
(***************************************************************************)
ReplyNeverOrphaned ==
  [][ /\ \A i \in 1..Len(nodes') :
           (nodes'[i].role = "assistant" /\ ~Resolves(nodes, nodes'[i].id))
             => Resolves(nodes', nodes'[i].parentId)
      /\ \A r \in pending :
           (r \notin pending' /\ ~Resolves(nodes, r.userNodeId))
             => \/ nodes' = nodes /\ activeNodeId' = activeNodeId
                \/ \E i \in 1..Len(nodes') :
                     /\ ~Resolves(nodes, nodes'[i].id)
                     /\ Resolves(nodes', nodes'[i].parentId) ]_vars

AtMostOnePinned == Cardinality(PinnedIds(nodes)) <= 1

(***************************************************************************)
(* C5.  TogglePin(A) while a different node B is the pinned node: A is     *)
(* pinned, B is not, no other pin flag changes, and every node's other     *)
(* fields, the order of the collection and both cursors stay as they were. *)
(***************************************************************************)
TogglePinFramePre ==
  /\ call.op = "TOGGLE_PIN"
  /\ Resolves(call.state.nodes, call.id)
  /\ Cardinality(PinnedIds(call.state.nodes)) = 1
  /\ call.id \notin PinnedIds(call.state.nodes)

DeleteRemovesSubtree ==
  (call.op = "DELETE_NODE" /\ Resolves(call.state.nodes, call.id)) =>
    LET old     == call.state.nodes
        removed == SubtreeIds(old, call.id)
    IN  /\ call.id \in removed
        /\ NodeIds(nodes) = NodeIds(old) \ removed
        /\ Len(nodes) = Len(old) - Cardinality(removed)
        /\ \A i \in 1..Len(nodes) :
             /\ nodes[i].parentId \notin removed
             /\ \A k \in 1..Len(nodes[i].children) : nodes[i].children[k] \notin removed

\* X had a parent and a child: the subtree went, the parent stayed
DeleteRemovesSubtreeWitness ==
  /\ call.op = "DELETE_NODE"
  /\ Resolves(call.state.nodes, call.id)
  /\ Cardinality(SubtreeIds(call.state.nodes, call.id)) >= 2
  /\ findNodeById(call.state.nodes, call.id).parentId \in NodeIds(nodes)

(***************************************************************************)
(* The list compileContext returned is the emitted nodes as messages, then *)
(* the new prompt.                                                         *)
(***************************************************************************)
Compiled == call.op = "compileContext"

Emitted == compiledNodes(nodes, call.id)

IsListOf(emitted) == context = toMessages(emitted) \o <<Message("user", call.text)>>

ActiveHasParent == Resolves(nodes, call.id) /\ findNodeById(nodes, call.id).parentId # NoId

ActiveIsRoot == Resolves(nodes, call.id) /\ findNodeById(nodes, call.id).parentId = NoId

\* position of a node in the store
StoreIndex(n) == findIndex(nodes, n.id)

(***************************************************************************)
(* C7.  Sub-branch, nothing pinned: the list is the ancestor path from the *)
(* root down to the active node, then the new prompt.                      *)
(***************************************************************************)
SubBranchRootFirst ==
  (Compiled /\ ActiveHasParent /\ PinnedIds(nodes) = {})
    => IsListOf(getPathToRoot(nodes, call.id))

PinnedFirst ==
  Compiled =>
    LET em == Emitted IN
    /\ IsListOf(em)
    /\ \A i \in 1..Len(em) : \A j \in 1..Len(em) :
         /\ (em[i].metadata.isPinned /\ ~em[j].metadata.isPinned) => i < j
         /\ (em[i].metadata.isPinned /\ em[j].metadata.isPinned /\ i < j)
              => StoreIndex(em[i]) < StoreIndex(em[j])

(***************************************************************************)
(* C10.  The emitted nodes are exactly the pinned nodes, the ancestor path *)
(* and, when the active node has no parent, the nodes below it; each is    *)
(* emitted once, so the list is one longer than that set.                  *)
(***************************************************************************)
ContextIds ==
  PinnedIds(nodes) \cup AncestorsOrSelf(nodes, call.id)
    \cup (IF ActiveIsRoot THEN DescendantIds(nodes, call.id) ELSE {})

PromptAlwaysLast ==
  Compiled =>
    /\ Len(context) >= 1
    /\ context[Len(context)] = Message("user", call.text)
    /\ Len(context) = Len(Emitted) + 1
    /\ SubSeq(context, 1, Len(context) - 1) = toMessages(Emitted)

\* the prompt repeats the text of an emitted user node, and both entries are there
PromptAlwaysLastWitness ==
  /\ Compiled
  /\ Len(context) >= 2
  /\ \E i \in 1..(Len(context) - 1) : context[i] = Message("user", call.text)
  /\ context[Len(context)] = Message("user", call.text)

(***************************************************************************)
(* C12.  Isolation of sub-branches: for an active node with a parent the   *)
(* list is a function of the pinned nodes and of the ancestor path alone.  *)
(* It equals the list compiled from the store that holds those nodes and   *)
(* nothing else; two stores that agree on the pinned nodes and on the path *)
(* have that store in common, so they yield the same list.  Every entry    *)
(* before the prompt comes from a pinned node or a node of the path.       *)
(***************************************************************************)
\* what a node is, apart from its children list and its remaining metadata
NodeCore(n) ==
  [id |-> n.id, parentId |-> n.parentId, role |-> n.role, content |-> n.content,
   isPinned |-> n.metadata.isPinned]

CoreOf(ns) == [i \in 1..Len(ns) |-> NodeCore(ns[i])]

RECURSIVE CoresNotIn(_, _)
CoresNotIn(cores, ids) ==
  IF cores = << >> THEN << >>
  ELSE (IF Head(cores).id \in ids THEN << >> ELSE <<Head(cores)>>)
       \o CoresNotIn(Tail(cores), ids)

RECURSIVE CoreIdsWithParent(_, _)
CoreIdsWithParent(cores, id) ==
  IF cores = << >> THEN << >>
  ELSE (IF Head(cores).parentId = id THEN <<Head(cores).id>> ELSE << >>)
       \o CoreIdsWithParent(Tail(cores), id)

\* the store made of the pinned nodes and the path nodes and nothing else
OnlyPinnedAndPath(pinnedCores, pathCores) ==
  LET kept == pinnedCores
                \o CoresNotIn(pathCores, {pinnedCores[i].id : i \in 1..Len(pinnedCores)})
  IN  [i \in 1..Len(kept) |->
         [ id       |-> kept[i].id,
           parentId |-> kept[i].parentId,
           children |-> CoreIdsWithParent(kept, kept[i].id),
           role     |-> kept[i].role,
           content  |-> kept[i].content,
           metadata |-> [timestamp |-> 0, modelUsed |-> "null", tokenCount |-> 0,
                         isPinned |-> kept[i].isPinned] ]]

SubBranchIsolated ==
  (Compiled /\ ActiveHasParent) =>
    /\ context = compileContext(OnlyPinnedAndPath(CoreOf(SelectPinned(nodes)),
                                                  CoreOf(getPathToRoot(nodes, call.id))),
                                call.id, call.text)
    /\ LET em == Emitted IN
       /\ Len(context) = Len(em) + 1
       /\ \A i \in 1..Len(em) :
            em[i].metadata.isPinned \/ em[i].id \in AncestorsOrSelf(nodes, call.id)

\* the store has an unpinned node below the path's root that is not on the path,
\* next to a pinned node and a path of two nodes
SubBranchIsolatedWitness ==
  /\ Compiled /\ ActiveHasParent
  /\ Len(getPathToRoot(nodes, call.id)) >= 2
  /\ PinnedIds(nodes) # {}
  /\ \E i \in 1..Len(nodes) :
       /\ ~nodes[i].metadata.isPinned
       /\ nodes[i].id \notin AncestorsOrSelf(nodes, call.id)
       /\ nodes[i].parentId \in AncestorsOrSelf(nodes, call.id)

(***************************************************************************)
(* C13.  The token total getContextSummary reports is the sum of           *)
(* tokenCount over the distinct nodes compileContext emits for the same    *)
(* store and active node.                                                  *)
(***************************************************************************)
Summarized == call.op = "getContextSummary"

SummaryTokensMatchCompile ==
  Summarized => summary.totalTokens = sumTokenCount(compiledNodes(nodes, call.id))

(***************************************************************************)
(* C14.  The node total getContextSummary reports is the number of nodes   *)
(* compileContext emits, and it reports a sub-branch exactly when          *)
(* compileContext takes the isolated-memory branch.                        *)
(***************************************************************************)
SummaryCountMatchesCompile ==
  Summarized =>
    /\ summary.totalContextNodes = Len(compiledNodes(nodes, call.id))
    /\ summary.totalContextNodes = Len(compileContext(nodes, call.id, "ok")) - 1
    /\ summary.isInSubBranch = ~isInMainBranch(nodes, call.id)

(***************************************************************************)
(* C15.  TogglePin(id) with an id that names no node changes nothing: the  *)
(* pin flags, the nodes and both cursors are what they were.               *)
(***************************************************************************)
TogglePinMissingChangesNothing ==
  (call.op = "TOGGLE_PIN" /\ ~Resolves(call.state.nodes, call.id)) =>
    /\ nodes = call.state.nodes
    /\ PinnedIds(nodes) = PinnedIds(call.state.nodes)
    /\ activeNodeId = call.state.activeNodeId
    /\ selectedNodeId = call.state.selectedNodeId

(***************************************************************************)
(* C16.  A cursor is never moved to an id that names no node: SetActive    *)
(* and SetSelected with such an id leave the cursor where it was, also     *)
(* when the id comes from a search result of an earlier store.             *)
(***************************************************************************)
CursorMovesOnlyToNodes ==
  [][ /\ activeNodeId' # activeNodeId
           => (activeNodeId' = NoId \/ Resolves(nodes', activeNodeId'))
      /\ selectedNodeId' # selectedNodeId
           => (selectedNodeId' = NoId \/ Resolves(nodes', selectedNodeId')) ]_vars

(***************************************************************************)
(* C17.  DeleteNode(id) with an id that names no node changes nothing:     *)
(* the collection, every children list and both cursors are what they     *)
(* were, also when some node's parentId is that id.                        *)
(***************************************************************************)
DeleteMissingChangesNothing ==
  (call.op = "DELETE_NODE" /\ ~Resolves(call.state.nodes, call.id)) =>
    /\ nodes = call.state.nodes
    /\ activeNodeId = call.state.activeNodeId
    /\ selectedNodeId = call.state.selectedNodeId

(***************************************************************************)
(* C18.  AddNode makes the new node the active node exactly when the       *)
(* collection was empty or the new node is an assistant node; otherwise    *)
(* the active cursor stays, and the selected cursor always stays.          *)
(***************************************************************************)
AddNodeActivation ==
  call.op = "ADD_NODE" =>
    LET old   == call.state
        added == nodes[Len(nodes)]
    IN  /\ Len(nodes) = Len(old.nodes) + 1
        /\ added.id = call.id
        /\ (activeNodeId = added.id) <=> (Len(old.nodes) = 0 \/ added.role = "assistant")
        /\ activeNodeId # added.id => activeNodeId = old.activeNodeId
        /\ selectedNodeId = old.selectedNodeId

\* a user node was added to a store that had an active and a selected node
AddNodeActivationWitness ==
  /\ call.op = "ADD_NODE"
  /\ nodes[Len(nodes)].role = "user"
  /\ call.state.activeNodeId # NoId
  /\ activeNodeId = call.state.activeNodeId
  /\ selectedNodeId # NoId

(***************************************************************************)
(* C19.  After DeleteNode(id): an active cursor inside the removed subtree *)
(* moves to the first remaining node, or to none when nothing remains; a   *)
(* selected cursor inside it becomes none; cursors outside it stay.        *)
(***************************************************************************)
DeleteMovesCursors ==
  (call.op = "DELETE_NODE" /\ Resolves(call.state.nodes, call.id)) =>
    LET old     == call.state
        removed == SubtreeIds(old.nodes, call.id)
    IN  /\ activeNodeId =
             IF old.activeNodeId \in removed
               THEN (IF nodes = << >> THEN NoId ELSE nodes[1].id)
               ELSE old.activeNodeId
        /\ selectedNodeId =
             IF old.selectedNodeId \in removed THEN NoId ELSE old.selectedNodeId

\* both cursors were inside the removed subtree and a node remains
DeleteMovesCursorsWitness ==
  /\ call.op = "DELETE_NODE"
  /\ Resolves(call.state.nodes, call.id)
  /\ call.state.activeNodeId \in SubtreeIds(call.state.nodes, call.id)
  /\ call.state.selectedNodeId \in SubtreeIds(call.state.nodes, call.id)
  /\ nodes # << >>
  /\ activeNodeId = nodes[1].id
  /\ selectedNodeId = NoId

(***************************************************************************)
(* C20.  No operation changes the id, content, role or parentId of a node  *)
(* that exists before and after it.                                        *)
(***************************************************************************)
ExistingNodesKeepIdentity ==
  call.op # "none" =>
    \A i \in 1..Len(call.state.nodes) : \A j \in 1..Len(nodes) :
      nodes[j].id = call.state.nodes[i].id =>
        /\ nodes[j].content = call.state.nodes[i].content
        /\ nodes[j].role = call.state.nodes[i].role
        /\ nodes[j].parentId = call.state.nodes[i].parentId

(***************************************************************************)
(* C21.  A message sent from the message input attaches to the active      *)
(* node: the new user node's parentId is the active cursor and the context *)
(* handed to the provider is compileContext(nodes, activeNodeId, text),    *)
(* pinned node or not.                                                     *)
(***************************************************************************)
SendAttachesToActive ==
  [][ \A r \in pending' \ pending :
        r.via = "input" =>
          /\ Resolves(nodes', r.userNodeId)
          /\ findNodeById(nodes', r.userNodeId).parentId = activeNodeId
          /\ context' = compileContext(nodes, activeNodeId, r.prompt) ]_vars

(***************************************************************************)
(* C22.  The user node of a send or branch is in the store from the step   *)
(* that issues the request, and while a request is outstanding the store   *)
(* stays open: every node can be pinned, deleted, activated and selected,  *)
(* and a message can be sent or a branch started from every input that is  *)
(* not itself waiting; each of these steps changes the store at once.      *)
(***************************************************************************)
\* the model hands out ids up to MaxIds
IdsLeft == nextId <= MaxIds

\* the inputs that wait for a reply of their own
Waiting(via) == \E r \in pending : r.via = via

OpenWhilePending ==
  pending # {} =>
    /\ \A id \in NodeIds(nodes) :
         /\ ENABLED togglePin(id)
         /\ ENABLED deleteNode(id)
         /\ ENABLED setActiveNode(id)
         /\ ENABLED setSelectedNode(id)
    /\ \A via \in Channels :
         (~Waiting(via) /\ IdsLeft /\ activeNodeId # NoId) => ENABLED sendMessage(" ok ", via)
    /\ \A id \in NodeIds(nodes) :
         (~Waiting("terminal") /\ IdsLeft) => ENABLED branchFromNode(id, " ok ")

\* a step taken while a request is outstanding that neither issues nor completes
\* a request leaves the store as one reducer case computes it from the state before
EffectAtOnce ==
  LET after == [nodes |-> nodes', activeNodeId |-> activeNodeId',
                selectedNodeId |-> selectedNodeId']
  IN  \E id \in 1..MaxNodes :
        \/ after = TOGGLE_PIN(State, id)
        \/ after = DELETE_NODE(State, id)
        \/ after = SET_ACTIVE_NODE(State, id)
        \/ after = SET_SELECTED_NODE(State, id)
        \/ after = SET_ACTIVE_NODE(SET_SELECTED_NODE(State, id), id)

CommittedBeforeRequest ==
  /\ \A r \in pending' \ pending :
       /\ ~Resolves(nodes, r.userNodeId)
       /\ Resolves(nodes', r.userNodeId)
       /\ findNodeById(nodes', r.userNodeId).role = "user"
  /\ (pending # {} /\ pending' = pending /\ fallback' = fallback /\ nextId' = nextId) =>
       EffectAtOnce

StoreOpenWhilePending == [][CommittedBeforeRequest]_vars /\ []OpenWhilePending

\* a request is outstanding, and a later message was attached and a node pinned
StoreOpenWhilePendingWitness ==
  \E r \in pending :
    /\ PinnedIds(nodes) # {}
    /\ \E id \in NodeIds(nodes) : id > r.userNodeId

(***************************************************************************)
(* C23.  With provider completion scheduled fairly, every request whose    *)
(* user node is committed gets its reply node, and one whose provider call *)
(* failed gets the stand-in text.  The failure itself leaves nodes and     *)
(* cursors alone; the reply is appended under the user node, becomes       *)
(* active, and changes no other node and not the selection.                *)
(***************************************************************************)
HasReply(id) ==
  \E i \in 1..Len(nodes) : nodes[i].parentId = id /\ nodes[i].role = "assistant"

HasStandInReply(id) ==
  \E i \in 1..Len(nodes) :
    /\ nodes[i].parentId = id
    /\ nodes[i].role = "assistant"
    /\ \E messageText \in MessageTexts :
         nodes[i].content = sendToMockLLM(<<Message("user", messageText)>>)

FailureLeavesTree ==
  /\ (fallback' # fallback /\ pending' = pending) =>
       UNCHANGED <<nodes, activeNodeId, selectedNodeId>>
  /\ \A r \in pending \ pending' :
       /\ Len(nodes') = Len(nodes) + 1
       /\ \A i \in 1..Len(nodes) :
            \/ nodes'[i] = nodes[i]
            \/ /\ nodes[i].id = r.userNodeId
               /\ nodes'[i] = addChildToNode(nodes[i], nodes'[Len(nodes')].id)
       /\ nodes'[Len(nodes')].parentId = r.userNodeId
       /\ nodes'[Len(nodes')].role = "assistant"
       /\ ~Resolves(nodes, nodes'[Len(nodes')].id)
       /\ r.userNodeId \in fallback =>
            nodes'[Len(nodes')].content = sendToMockLLM(<<Message("user", r.prompt)>>)
       /\ activeNodeId' = nodes'[Len(nodes')].id
       /\ selectedNodeId' = selectedNodeId

EveryRequestCompletes ==
  /\ [][FailureLeavesTree]_vars
  /\ \A id \in 1..MaxNodes :
       /\ (\E r \in pending : r.userNodeId = id) ~> HasReply(id)
       /\ (id \in fallback) ~> HasStandInReply(id)

\* a provider call failed and its request was answered by the stand-in
EveryRequestCompletesWitness ==
  \E id \in NodeIds(nodes) : HasStandInReply(id) /\ pending = {}

(***************************************************************************)
(* C24.  A parent walk stops at a cycle: getPathToRoot and getNodeDepth    *)
(* never go through the same node a second time, on any store, one with a  *)
(* cycle among its parentId pointers included.                             *)
(***************************************************************************)
WalkStopsAtCycle ==
  call.op \in {"getPathToRoot", "getNodeDepth"} =>
    \A i, j \in 1..Len(context) : context[i].id = context[j].id => i = j

(***************************************************************************)
(* C25.  Every state the application reaches from the empty store is a     *)
(* forest: no two nodes share an id, and following parentId from any node  *)
(* leaves the store within as many steps as it has nodes.                  *)
(***************************************************************************)
UniqueIds(ns) == \A i, j \in 1..Len(ns) : ns[i].id = ns[j].id => i = j

RECURSIVE ancestorAfter(_, _, _)
\* the id reached from id by k parentId steps, NoId once the chain has left the store
ancestorAfter(ns, id, k) ==
  IF ~Resolves(ns, id) THEN NoId
  ELSE IF k = 0 THEN id
  ELSE ancestorAfter(ns, findNodeById(ns, id).parentId, k - 1)

Acyclic(ns) == \A id \in NodeIds(ns) : ancestorAfter(ns, id, Len(ns)) = NoId

StoreIsForest == UniqueIds(nodes) /\ Acyclic(nodes)

\* nodes were added, one was deleted and one pinned
StoreIsForestWitness ==
  /\ Len(nodes) >= 2
  /\ nextId > Len(nodes) + 1
  /\ PinnedIds(nodes) # {}

(***************************************************************************)
(* C26.  The path of every node of the store starts at a root, ends at the *)
(* node, and links each element to the one before it by parentId; for an   *)
(* id with no such chain the navigator gives no path at all, neither an    *)
(* empty nor a partial one.  getPathToRoot has no result but a list, so    *)
(* for those ids every list it returns is one the claim excludes.          *)
(***************************************************************************)
IsRootChain(path, id) ==
  /\ Len(path) > 0
  /\ path[1].parentId = NoId
  /\ path[Len(path)].id = id
  /\ \A k \in 2..Len(path) : path[k].parentId = path[k - 1].id

PathIsRootChain ==
  \A id \in NodeIds(nodes) : IsRootChain(getPathToRoot(nodes, id), id)

(***************************************************************************)
(* C27.  The depth of every node is the length of its path less one, for a *)
(* node whose parentId names no node too.                                  *)
(***************************************************************************)
DepthIsPathLength ==
  \A id \in NodeIds(nodes) : getNodeDepth(nodes, id) = Len(getPathToRoot(nodes, id)) - 1

(***************************************************************************)
(* C28.  A load or an import of a malformed payload (text that does not    *)
(* parse, a wrapper whose nodes is absent or not an array) is rejected as  *)
(* a whole: nodes and cursors are what they were before.                   *)
(***************************************************************************)
MalformedLoadRejected ==
  (call.op \in {"loadProject", "handleImport"} /\ call.text \in Malformed) =>
    State = call.state /\ projectId = DefaultProject

(***************************************************************************)
(* C29.  After the terminal's pin of an existing node, which always        *)
(* reports "Pinned node", the node is pinned, whatever it was before.      *)
(* handlePin looks the node up and calls togglePin.                        *)
(***************************************************************************)
PinCommandPins ==
  (call.op = "TOGGLE_PIN" /\ Resolves(call.state.nodes, call.id)) =>
    call.id \in PinnedIds(nodes)

(***************************************************************************)
(* C30.  getDescendants lists exactly the nodes below the target, each     *)
(* once and not the target: every node is followed at once by the block of *)
(* its own descendants, and the children of one node come in the order of  *)
(* its children list.  For an id that names no node the list is empty.     *)
(***************************************************************************)
IdsOf(ns) == [k \in 1..Len(ns) |-> ns[k].id]

PositionIn(ids, id) == CHOOSE k \in 1..Len(ids) : ids[k] = id

PreOrderOf(ns, id, d) ==
  LET ids == IdsOf(d) IN
  /\ {ids[k] : k \in 1..Len(ids)} = DescendantIds(ns, id)
  /\ \A k, l \in 1..Len(ids) : ids[k] = ids[l] => k = l
  /\ \A k \in 1..Len(d) : d[k] = findNodeById(ns, ids[k])
  /\ \A k \in 1..Len(ids) :
       LET below == DescendantIds(ns, ids[k]) IN
       /\ k + Cardinality(below) <= Len(ids)
       /\ {ids[l] : l \in (k + 1)..(k + Cardinality(below))} = below
  /\ \A x \in {id} \cup DescendantIds(ns, id) :
       LET c == findNodeById(ns, x).children IN
       \A a, b \in 1..Len(c) :
         (a < b /\ Resolves(ns, c[a]) /\ Resolves(ns, c[b])) =>
           PositionIn(ids, c[a]) < PositionIn(ids, c[b])

DescendantsPreOrder ==
  call.op = "getDescendants" =>
    IF Resolves(nodes, call.id)
      THEN PreOrderOf(nodes, call.id, context)
      ELSE context = << >>

\* a node was added under a first child that has a younger sibling: the walk
\* lists the new grandchild before that sibling
DescendantsPreOrderWitness ==
  /\ call.op = "getDescendants"
  /\ Len(context) >= 3
  /\ \E k \in 1..(Len(context) - 1) : context[k].id > context[k + 1].id

(***************************************************************************)
(* C31.  The active cursor names a node of the store whenever the store    *)
(* has nodes, and is none whenever the store is empty.                     *)
(***************************************************************************)
ActiveCursorResolves ==
  IF Len(nodes) = 0 THEN activeNodeId = NoId ELSE Resolves(nodes, activeNodeId)

(***************************************************************************)
(* C32.  The selected cursor is none or names a node of the store.         *)
(***************************************************************************)
SelectedCursorResolves ==
  selectedNodeId = NoId \/ Resolves(nodes, selectedNodeId)

(***************************************************************************)
(* C33.  A reply to a request issued in one project stays out of another   *)
(* project: when the reply of a request issued before a project switch     *)
(* completes, the node collection and the active cursor of the project     *)
(* now loaded are left as they are.                                        *)
(***************************************************************************)
ReplyStaysInItsProject ==
  [][ \A r \in pending \ pending' :
        r.projectId # projectId =>
          /\ nodes' = nodes
          /\ activeNodeId' = activeNodeId ]_vars

(***************************************************************************)
(* C34.  With several requests outstanding, a reply that completes is      *)
(* attached as a child of the user node that triggered it, is that node's  *)
(* only assistant child, and is the active node.                           *)
(***************************************************************************)
AssistantChildren(ns, id) ==
  {i \in 1..Len(ns) : ns[i].parentId = id /\ ns[i].role = "assistant"}

ReplyAttachedToItsUserNode ==
  \A r \in pending \ pending' :
    Cardinality(pending) >= 2 =>
      LET aiNode == nodes'[Len(nodes')] IN
      /\ Resolves(nodes', r.userNodeId)
      /\ aiNode.parentId = r.userNodeId
      /\ InSeq(aiNode.id, findNodeById(nodes', r.userNodeId).children)
      /\ Cardinality(AssistantChildren(nodes', r.userNodeId)) = 1
      /\ activeNodeId' = aiNode.id

RepliesAttachInAnyOrder == [][ReplyAttachedToItsUserNode]_vars

(***************************************************************************)
(* C35.  For every node of the store, the descendants DELETE_NODE finds by *)
(* following parentId are the descendants getDescendants finds by          *)
(* following the children lists.                                           *)
(***************************************************************************)
NodesOf(list) == {list[k] : k \in 1..Len(list)}

RootIds(ns) == {id \in NodeIds(ns) : findNodeById(ns, id).parentId = NoId}

TimestampsNonDecreasing ==
  \A i \in 1..Len(nodes) : \A j \in i..Len(nodes) :
    nodes[i].metadata.timestamp <= nodes[j].metadata.timestamp

NotOlderThanParent ==
  \A i \in 1..Len(nodes) :
    Resolves(nodes, nodes[i].parentId)
      => findNodeById(nodes, nodes[i].parentId).metadata.timestamp
           <= nodes[i].metadata.timestamp

\* em[i] comes after the entry of its parent
AfterOwnParent(em, i) == \E j \in 1..(i - 1) : em[j].id = em[i].parentId

\* every entry of em that is below the root comes after its parent's entry
DescendantsAfterParents(em, below) ==
  \A i \in 1..Len(em) : em[i].id \in below => AfterOwnParent(em, i)

\* the same for the entries that are not pinned, or whose parent is the root
\* or pinned
UnpinnedAfterParents(em, below, rootId, pinned) ==
  \A i \in 1..Len(em) :
    ( /\ em[i].id \in below
      /\ \/ ~em[i].metadata.isPinned
         \/ em[i].parentId = rootId
         \/ em[i].parentId \in pinned )
      => AfterOwnParent(em, i)

\* the claim as stated: every emitted descendant, pinned or not
DescendantAfterParent ==
  /\ TimestampsNonDecreasing
  /\ NotOlderThanParent
  /\ \A rootId \in RootIds(nodes) :
       DescendantsAfterParents(compiledNodes(nodes, rootId), DescendantIds(nodes, rootId))

\* the pinned entries go first: a pinned descendant follows its parent only
\* when the parent is pinned as well or is the root
UnpinnedDescendantAfterParent ==
  /\ TimestampsNonDecreasing
  /\ NotOlderThanParent
  /\ \A rootId \in RootIds(nodes) :
       UnpinnedAfterParents(compiledNodes(nodes, rootId), DescendantIds(nodes, rootId),
                            rootId, PinnedIds(nodes))

\* a root with a child and a grandchild made at different times, nothing pinned
UnpinnedDescendantAfterParentWitness ==
  /\ PinnedIds(nodes) = {}
  /\ \E rootId \in RootIds(nodes) :
       /\ Len(compiledNodes(nodes, rootId)) = 3
       /\ compiledNodes(nodes, rootId)[3].parentId = compiledNodes(nodes, rootId)[2].id
       /\ compiledNodes(nodes, rootId)[2].metadata.timestamp
            < compiledNodes(nodes, rootId)[3].metadata.timestamp

(***************************************************************************)
(* C37.  Every assistant node is the reply to a user node: it is added for *)
(* an outstanding request whose user node was added when the request       *)
(* left, its parentId is that user node's id (the node may be gone by       *)
(* then), it is never a root, and no user node has two assistant children. *)
(***************************************************************************)
\* the assistant nodes of ns whose parentId is id
AssistantsUnder(ns, id) ==
  {i \in 1..Len(ns) : ns[i].role = "assistant" /\ ns[i].parentId = id}

AssistantsAreReplies(ns) ==
  \A i \in 1..Len(ns) :
    ns[i].role = "assistant" =>
      /\ ns[i].parentId # NoId
      /\ Resolves(ns, ns[i].parentId) => findNodeById(ns, ns[i].parentId).role = "user"
      /\ AssistantsUnder(ns, ns[i].parentId) = {i}

\* a request that leaves has added its user node
RequestHasUserNode ==
  \A r \in pending' \ pending :
    /\ ~Resolves(nodes, r.userNodeId)
    /\ Resolves(nodes', r.userNodeId)
    /\ findNodeById(nodes', r.userNodeId).role = "user"

\* an assistant node that appears answers an outstanding request, which ends
AssistantAnswersRequest ==
  \A i \in 1..Len(nodes') :
    (nodes'[i].role = "assistant" /\ ~Resolves(nodes, nodes'[i].id))
      => \E r \in pending \ pending' : r.userNodeId = nodes'[i].parentId

CeilQuarter(n) == CHOOSE k \in 0..n : 4 * k >= n /\ 4 * k < n + 4

RECURSIVE QuarterSum(_, _)
\* CeilQuarter of the content lengths of msgs[i..], added up
QuarterSum(msgs, i) ==
  IF i > Len(msgs) THEN 0
  ELSE CeilQuarter(Len(msgs[i].content)) + QuarterSum(msgs, i + 1)

Validated == call.op \in {"validateContext", "validateCompiled"}

ValidateWarnsExactly ==
  Validated =>
    /\ summary.totalTokens = QuarterSum(context, 1)
    /\ summary.warnings # << >>
         <=> (QuarterSum(context, 1) > call.maxTokens \/ context = << >>)
    /\ InSeq(OverLimit, summary.warnings) <=> QuarterSum(context, 1) > call.maxTokens
    /\ InSeq(NoMessages, summary.warnings) <=> context = << >>
    /\ summary.isValid <=> summary.warnings = << >>
    /\ State = call.state
    /\ call.op = "validateCompiled" => ~InSeq(NoMessages, summary.warnings)

\* a list whose count meets the budget exactly, one content not a multiple of
\* four long: no warning
ValidateWarnsExactlyWitness ==
  /\ call.op = "validateContext"
  /\ Len(context) = 2
  /\ \E i \in 1..Len(context) : Len(context[i].content) % 4 # 0
  /\ summary.totalTokens = call.maxTokens
  /\ summary.isValid

(***************************************************************************)
(* C39.  addChildToNode is an idempotent append: after one application and *)
(* after two the children list is the same; an id that was a child stays   *)
(* where it was, a new id goes to the end, the other ids keep their order, *)
(* and no id is in the list twice.                                         *)
(***************************************************************************)
Attached == call.op = "addChildToNode"

ChildrenBefore == findNodeById(call.state.nodes, call.parentId).children

ChildrenAfter == findNodeById(nodes, call.parentId).children

NoDuplicates(s) == \A i \in 1..Len(s) : \A j \in 1..Len(s) : s[i] = s[j] => i = j

AttachIsIdempotentAppend ==
  Attached =>
    /\ NoDuplicates(ChildrenAfter)
    /\ InSeq(call.id, ChildrenAfter)
    /\ SubSeq(ChildrenAfter, 1, Len(ChildrenBefore)) = ChildrenBefore
    /\ InSeq(call.id, ChildrenBefore) => ChildrenAfter = ChildrenBefore
    /\ ~InSeq(call.id, ChildrenBefore)
         => (/\ Len(ChildrenAfter) = Len(ChildrenBefore) + 1
             /\ ChildrenAfter[Len(ChildrenAfter)] = call.id)
    /\ \A i \in 1..Len(nodes) :
         nodes[i].id # call.parentId => nodes[i] = call.state.nodes[i]

\* applied twice to a node that had children, with an id that was not among them
AttachIsIdempotentAppendWitness ==
  /\ Attached
  /\ call.text = "twice"
  /\ ChildrenBefore # << >>
  /\ ~InSeq(call.id, ChildrenBefore)
  /\ Len(ChildrenAfter) = Len(ChildrenBefore) + 1

====
